---------------------------- MODULE Spec2Model ----------------------------
(***************************************************************************)
(* Model of ucs_vnic_template_vlan.py: an Ansible module that adds a VLAN  *)
(* to a UCS vNIC template.  Two invocations of main() run as independent   *)
(* OS processes against one UCS Manager; every remote call of the SDK      *)
(* handle (login, query_dn, query_classid, add_mo, commit, logout) either  *)
(* returns or raises.                                                      *)
(*                                                                         *)
(* AnsibleModule.fail_json and exit_json print their arguments and end the *)
(* process (SystemExit, which "except Exception" does not catch), so       *)
(* nothing after a call to either of them runs.                            *)
(***************************************************************************)
EXTENDS Naturals, Sequences, FiniteSets, TLC

\* Longest org list drawn for the module parameter "org".
MaxOrgLen == 2

\* The invocations of the program (one OS process each).
Procs == {1, 2}

\* Values drawn for the module parameters.
OrgNames == {"root", "ccl"}
TemplateNames == {"data-A", "data-B"}
VlanNames == {"test-vlan_666"}
\* A VLAN that is never the parameter, but may be defined on the UCS.
OtherVlan == "other-vlan"

OrgLists == UNION {[1..n -> OrgNames] : n \in 0..MaxOrgLen}

VARIABLES
    org,                    \* module.params['org']
    vnic_template_name,     \* module.params['vnic_template_name']
    vlan_name,              \* module.params['vlan_name']
    fabricVlans,            \* UCS Manager: names of the fabricVlan objects
    remote,                 \* UCS Manager: DNs of the VnicEtherIf objects
    sessions,               \* UCS Manager: invocations holding a session
    pc,                     \* position of each invocation in main()
    vnic_templ_dn,          \* main(): vnic_templ_dn
    vlan_on_vnic_template,  \* main(): vlan_on_vnic_template
    vlan_on_fi,             \* main(): vlan_on_fi
    results,                \* main(): the results dictionary
    buf,                    \* UcsHandle: the uncommitted objects
    calls,                  \* history: SDK / AnsibleModule calls, in order
    output,                 \* what the invocation reported to Ansible
    startedAfter            \* history: invocations already over at start

vars == <<org, vnic_template_name, vlan_name, fabricVlans, remote, sessions,
          pc, vnic_templ_dn, vlan_on_vnic_template, vlan_on_fi, results,
          buf, calls, output, startedAfter>>

params == <<org, vnic_template_name, vlan_name, fabricVlans>>

Terminal == {"exited", "failed", "crashed"}

-----------------------------------------------------------------------------
(* Dictionaries and messages *)

EmptyDict == [k \in {} |-> TRUE]

\* d[k] = v of a Python dict
Put(d, k, v) == (k :> v) @@ d

Has(d, k, v) == k \in DOMAIN d /\ d[k] = v

MsgNoVlan == "VLAN does not exist on UCS Fabric Interconnects"

\* msg=e: the exception raised by the named SDK call
ExcMsg(op) == "exception:" \o op

NoOutput == [kind |-> "none", msg |-> "", result |-> EmptyDict]

\* module.fail_json(msg=m): only the message is handed over
FailJson(m) == [kind |-> "fail_json", msg |-> m, result |-> EmptyDict]

\* module.exit_json(**d)
ExitJson(d) == [kind |-> "exit_json", msg |-> "", result |-> d]

\* an exception nobody catches: the interpreter prints a traceback
Traceback(op) == [kind |-> "traceback", msg |-> ExcMsg(op), result |-> EmptyDict]

Call(op, ret) == [op |-> op, ret |-> ret]

-----------------------------------------------------------------------------
(* Pure functions *)

\* the for loop of main(): vnic_templ_dn += 'org-' + org_name + '/'
RECURSIVE OrgLoopPrepend(_, _, _)
OrgLoopPrepend(dn, orgs, i) ==
    IF i > Len(orgs) THEN dn
    ELSE OrgLoopPrepend(("org-" \o orgs[i] \o "/") \o dn, orgs, i + 1)

RECURSIVE OrgLoop(_, _, _)
OrgLoop(dn, orgs, i) ==
    IF i > Len(orgs) THEN dn
    ELSE OrgLoop(dn \o ("org-" \o orgs[i] \o "/"), orgs, i + 1)

BuildDn(orgs, templ) == OrgLoop("", orgs, 1) \o ("lan-conn-templ-" \o templ)

ProposedVlanDnNoIf(dn, vlan) == dn \o "/" \o vlan

\* check_if_vlan_on_vnic: proposed_vlan_dn
ProposedVlanDn(dn, vlan) == dn \o "/if-" \o vlan

\* check_if_vlan_on_vnic: query_dn finds the object or returns None
CheckIfVlanOnVnic(dn, vlan) == ProposedVlanDn(dn, vlan) \in remote

\* check_vlan_exists_on_fi: query_classid with filter (name, vlan, type="eq")
CheckVlanExistsOnFi(vlan) == {v \in fabricVlans : v = vlan} # {}

\* VnicEtherIf(parent_mo_or_dn=vnic_templ_dn, name=str(vlan_name)).dn
MoDn(dn, vlan) == dn \o "/if-" \o vlan

-----------------------------------------------------------------------------
Init ==
    /\ org \in OrgLists
    /\ vnic_template_name \in TemplateNames
    /\ vlan_name \in VlanNames
    /\ fabricVlans \in SUBSET (VlanNames \cup {OtherVlan})
    /\ remote \in SUBSET {ProposedVlanDn(BuildDn(org, vnic_template_name), v) :
                              v \in VlanNames \cup {OtherVlan}}
    /\ sessions = {}
    /\ pc = [p \in Procs |-> "start"]
    /\ vnic_templ_dn = [p \in Procs |-> ""]
    /\ vlan_on_vnic_template = [p \in Procs |-> FALSE]
    /\ vlan_on_fi = [p \in Procs |-> FALSE]
    /\ results = [p \in Procs |-> EmptyDict]
    /\ buf = [p \in Procs |-> {}]
    /\ calls = [p \in Procs |-> <<>>]
    /\ output = [p \in Procs |-> NoOutput]
    /\ startedAfter = [p \in Procs |-> {}]

\* main(), up to the call of log_into_ucs
Start(p) ==
    /\ pc[p] = "start"
    /\ vnic_templ_dn' = [vnic_templ_dn EXCEPT ![p] = BuildDn(org, vnic_template_name)]
    /\ startedAfter' = [startedAfter EXCEPT ![p] = {q \in Procs : pc[q] \in Terminal}]
    /\ pc' = [pc EXCEPT ![p] = "login"]
    /\ UNCHANGED <<params, remote, sessions, vlan_on_vnic_template, vlan_on_fi,
                   results, buf, calls, output>>

\* log_into_ucs: ucsm.login() returns
LoginOk(p) ==
    /\ pc[p] = "login"
    /\ sessions' = sessions \cup {p}
    /\ results' = [results EXCEPT ![p] = Put(@, "logged_in", TRUE)]
    /\ calls' = [calls EXCEPT ![p] = Append(@, Call("login", "ok"))]
    /\ pc' = [pc EXCEPT ![p] = "query_dn"]
    /\ UNCHANGED <<params, remote, vnic_templ_dn, vlan_on_vnic_template,
                   vlan_on_fi, buf, output, startedAfter>>

\* log_into_ucs: ucsm.login() raises
LoginRaise(p) ==
    /\ pc[p] = "login"
    /\ calls' = [calls EXCEPT ![p] =
                    @ \o <<Call("login", "raise"), Call("fail_json", "exit")>>]
    /\ output' = [output EXCEPT ![p] = FailJson(ExcMsg("login"))]
    /\ pc' = [pc EXCEPT ![p] = "failed"]
    /\ UNCHANGED <<params, remote, sessions, vnic_templ_dn,
                   vlan_on_vnic_template, vlan_on_fi, results, buf, startedAfter>>

\* check_if_vlan_on_vnic: query_dn returns, or raises (nothing catches it)
QueryDn(p) ==
    /\ pc[p] = "query_dn"
    /\ \/ /\ vlan_on_vnic_template' = [vlan_on_vnic_template EXCEPT ![p] =
                                          CheckIfVlanOnVnic(vnic_templ_dn[p], vlan_name)]
          /\ calls' = [calls EXCEPT ![p] = Append(@, Call("query_dn",
                          IF CheckIfVlanOnVnic(vnic_templ_dn[p], vlan_name)
                          THEN "true" ELSE "false"))]
          /\ pc' = [pc EXCEPT ![p] = "query_classid"]
          /\ UNCHANGED output
       \/ /\ calls' = [calls EXCEPT ![p] = Append(@, Call("query_dn", "raise"))]
          /\ output' = [output EXCEPT ![p] = Traceback("query_dn")]
          /\ pc' = [pc EXCEPT ![p] = "crashed"]
          /\ UNCHANGED vlan_on_vnic_template
    /\ UNCHANGED <<params, remote, sessions, vnic_templ_dn, vlan_on_fi,
                   results, buf, startedAfter>>

\* check_vlan_exists_on_fi: query_classid returns, or raises (nothing catches it)
QueryClassid(p) ==
    /\ pc[p] = "query_classid"
    /\ \/ /\ vlan_on_fi' = [vlan_on_fi EXCEPT ![p] = CheckVlanExistsOnFi(vlan_name)]
          /\ calls' = [calls EXCEPT ![p] = Append(@, Call("query_classid",
                          IF CheckVlanExistsOnFi(vlan_name) THEN "true" ELSE "false"))]
          /\ pc' = [pc EXCEPT ![p] = "decide"]
          /\ UNCHANGED output
       \/ /\ calls' = [calls EXCEPT ![p] = Append(@, Call("query_classid", "raise"))]
          /\ output' = [output EXCEPT ![p] = Traceback("query_classid")]
          /\ pc' = [pc EXCEPT ![p] = "crashed"]
          /\ UNCHANGED vlan_on_fi
    /\ UNCHANGED <<params, remote, sessions, vnic_templ_dn,
                   vlan_on_vnic_template, results, buf, startedAfter>>

\* main(): as Decide, without the test of vlan_on_fi
DecideNoFiCheck(p) ==
    /\ pc[p] = "decide"
    /\ IF ~vlan_on_vnic_template[p]
       THEN /\ pc' = [pc EXCEPT ![p] = "add_mo"]
            /\ UNCHANGED results
       ELSE /\ results' = [results EXCEPT ![p] = Put(@, "changed", FALSE)]
            /\ pc' = [pc EXCEPT ![p] = "logout"]
    /\ UNCHANGED <<params, remote, sessions, vnic_templ_dn,
                   vlan_on_vnic_template, vlan_on_fi, buf, calls, output,
                   startedAfter>>

\* main(): as Decide, the failure reported with the results of the run
DecideFailChanged(p) ==
    /\ pc[p] = "decide"
    /\ IF ~vlan_on_fi[p]
       THEN /\ results' = [results EXCEPT ![p] = Put(@, "changed", TRUE)]
            /\ calls' = [calls EXCEPT ![p] = Append(@, Call("fail_json", "exit"))]
            /\ output' = [output EXCEPT ![p] = FailJson(MsgNoVlan)]
            /\ pc' = [pc EXCEPT ![p] = "failed"]
       ELSE IF ~vlan_on_vnic_template[p]
       THEN /\ pc' = [pc EXCEPT ![p] = "add_mo"]
            /\ UNCHANGED <<results, calls, output>>
       ELSE /\ results' = [results EXCEPT ![p] = Put(@, "changed", FALSE)]
            /\ pc' = [pc EXCEPT ![p] = "logout"]
            /\ UNCHANGED <<calls, output>>
    /\ UNCHANGED <<params, remote, sessions, vnic_templ_dn,
                   vlan_on_vnic_template, vlan_on_fi, buf, startedAfter>>

\* main(): as Decide, add_vlan_to_vnic_template called whenever the VLAN is on the FIs
DecideAlwaysAdd(p) ==
    /\ pc[p] = "decide"
    /\ IF ~vlan_on_fi[p]
       THEN /\ results' = [results EXCEPT ![p] = Put(@, "changed", FALSE)]
            /\ calls' = [calls EXCEPT ![p] = Append(@, Call("fail_json", "exit"))]
            /\ output' = [output EXCEPT ![p] = FailJson(MsgNoVlan)]
            /\ pc' = [pc EXCEPT ![p] = "failed"]
       ELSE /\ pc' = [pc EXCEPT ![p] = "add_mo"]
            /\ UNCHANGED <<results, calls, output>>
    /\ UNCHANGED <<params, remote, sessions, vnic_templ_dn,
                   vlan_on_vnic_template, vlan_on_fi, buf, startedAfter>>

\* main(): the if / elif / else on vlan_on_fi and vlan_on_vnic_template
Decide(p) ==
    /\ pc[p] = "decide"
    /\ IF ~vlan_on_fi[p]
       THEN /\ results' = [results EXCEPT ![p] = Put(@, "changed", FALSE)]
            /\ calls' = [calls EXCEPT ![p] = Append(@, Call("fail_json", "exit"))]
            /\ output' = [output EXCEPT ![p] = FailJson(MsgNoVlan)]
            /\ pc' = [pc EXCEPT ![p] = "failed"]
       ELSE IF ~vlan_on_vnic_template[p]
       THEN /\ pc' = [pc EXCEPT ![p] = "add_mo"]
            /\ UNCHANGED <<results, calls, output>>
       ELSE /\ results' = [results EXCEPT ![p] = Put(@, "changed", FALSE)]
            /\ pc' = [pc EXCEPT ![p] = "logout"]
            /\ UNCHANGED <<calls, output>>
    /\ UNCHANGED <<params, remote, sessions, vnic_templ_dn,
                   vlan_on_vnic_template, vlan_on_fi, buf, startedAfter>>

\* add_vlan_to_vnic_template: as AddMo, taken only while no other invocation
\* is between its check and the end of its write
AddMoLocked(p) ==
    /\ pc[p] = "add_mo"
    /\ \A q \in Procs \ {p} : pc[q] \notin {"add_mo", "commit"}
    /\ buf' = [buf EXCEPT ![p] = @ \cup {MoDn(vnic_templ_dn[p], vlan_name)}]
    /\ calls' = [calls EXCEPT ![p] = Append(@, Call("add_mo", "ok"))]
    /\ pc' = [pc EXCEPT ![p] = "commit"]
    /\ UNCHANGED <<params, remote, sessions, vnic_templ_dn,
                   vlan_on_vnic_template, vlan_on_fi, results, output,
                   startedAfter>>

\* add_vlan_to_vnic_template: ucsm.handle.add_mo(mo), under
\* "if not vlan_on_vnic_template", returns or raises into fail_json(msg=e)
AddMo(p) ==
    /\ pc[p] = "add_mo"
    /\ IF ~vlan_on_vnic_template[p]
       THEN \/ /\ buf' = [buf EXCEPT ![p] = @ \cup {MoDn(vnic_templ_dn[p], vlan_name)}]
               /\ calls' = [calls EXCEPT ![p] = Append(@, Call("add_mo", "ok"))]
               /\ pc' = [pc EXCEPT ![p] = "commit"]
               /\ UNCHANGED output
            \/ /\ calls' = [calls EXCEPT ![p] =
                               @ \o <<Call("add_mo", "raise"), Call("fail_json", "exit")>>]
               /\ output' = [output EXCEPT ![p] = FailJson(ExcMsg("add_mo"))]
               /\ pc' = [pc EXCEPT ![p] = "failed"]
               /\ UNCHANGED buf
       ELSE /\ pc' = [pc EXCEPT ![p] = "logout"]
            /\ UNCHANGED <<buf, calls, output>>
    /\ UNCHANGED <<params, remote, sessions, vnic_templ_dn,
                   vlan_on_vnic_template, vlan_on_fi, results, startedAfter>>

\* add_vlan_to_vnic_template: as CommitRaise, with changed set before the commit
CommitRaiseChanged(p) ==
    /\ pc[p] = "commit"
    /\ results' = [results EXCEPT ![p] = Put(@, "changed", TRUE)]
    /\ calls' = [calls EXCEPT ![p] =
                    @ \o <<Call("commit", "raise"), Call("fail_json", "exit")>>]
    /\ output' = [output EXCEPT ![p] = FailJson(ExcMsg("commit"))]
    /\ pc' = [pc EXCEPT ![p] = "failed"]
    /\ UNCHANGED <<params, remote, sessions, vnic_templ_dn,
                   vlan_on_vnic_template, vlan_on_fi, buf, startedAfter>>

\* add_vlan_to_vnic_template: as CommitOk, the commit issued a second time
CommitOkTwice(p) ==
    /\ pc[p] = "commit"
    /\ remote' = remote \cup buf[p]
    /\ buf' = [buf EXCEPT ![p] = {}]
    /\ results' = [results EXCEPT ![p] = Put(@, "changed", TRUE)]
    /\ calls' = [calls EXCEPT ![p] =
                    @ \o <<Call("commit", "ok"), Call("commit", "ok")>>]
    /\ pc' = [pc EXCEPT ![p] = "logout"]
    /\ UNCHANGED <<params, sessions, vnic_templ_dn, vlan_on_vnic_template,
                   vlan_on_fi, output, startedAfter>>

\* add_vlan_to_vnic_template: ucsm.handle.commit() returns; the objects of
\* the commit buffer now exist on the UCS; results['changed'] = True
CommitOk(p) ==
    /\ pc[p] = "commit"
    /\ remote' = remote \cup buf[p]
    /\ buf' = [buf EXCEPT ![p] = {}]
    /\ results' = [results EXCEPT ![p] = Put(@, "changed", TRUE)]
    /\ calls' = [calls EXCEPT ![p] = Append(@, Call("commit", "ok"))]
    /\ pc' = [pc EXCEPT ![p] = "logout"]
    /\ UNCHANGED <<params, sessions, vnic_templ_dn, vlan_on_vnic_template,
                   vlan_on_fi, output, startedAfter>>

\* add_vlan_to_vnic_template: ucsm.handle.commit() raises; fail_json(msg=e)
\* ends the process, so the results['changed'] = False after it never runs
CommitRaise(p) ==
    /\ pc[p] = "commit"
    /\ calls' = [calls EXCEPT ![p] =
                    @ \o <<Call("commit", "raise"), Call("fail_json", "exit")>>]
    /\ output' = [output EXCEPT ![p] = FailJson(ExcMsg("commit"))]
    /\ pc' = [pc EXCEPT ![p] = "failed"]
    /\ UNCHANGED <<params, remote, sessions, vnic_templ_dn,
                   vlan_on_vnic_template, vlan_on_fi, results, buf, startedAfter>>

\* log_out_of_ucs: as LogoutOk, the session left open
LogoutOkNoClose(p) ==
    /\ pc[p] = "logout"
    /\ results' = [results EXCEPT ![p] = Put(@, "logged_out", TRUE)]
    /\ calls' = [calls EXCEPT ![p] =
                    @ \o <<Call("logout", "ok"), Call("exit_json", "exit")>>]
    /\ output' = [output EXCEPT ![p] = ExitJson(results'[p])]
    /\ pc' = [pc EXCEPT ![p] = "exited"]
    /\ UNCHANGED <<params, remote, sessions, vnic_templ_dn,
                   vlan_on_vnic_template, vlan_on_fi, buf, startedAfter>>

\* log_out_of_ucs: ucsm.handle.logout() returns; then main() calls
\* module.exit_json(**results)
LogoutOk(p) ==
    /\ pc[p] = "logout"
    /\ sessions' = sessions \ {p}
    /\ results' = [results EXCEPT ![p] = Put(@, "logged_out", TRUE)]
    /\ calls' = [calls EXCEPT ![p] =
                    @ \o <<Call("logout", "ok"), Call("exit_json", "exit")>>]
    /\ output' = [output EXCEPT ![p] = ExitJson(results'[p])]
    /\ pc' = [pc EXCEPT ![p] = "exited"]
    /\ UNCHANGED <<params, remote, vnic_templ_dn, vlan_on_vnic_template,
                   vlan_on_fi, buf, startedAfter>>

\* log_out_of_ucs: as LogoutRaise, undoing the association of this run
LogoutRaiseUndo(p) ==
    /\ pc[p] = "logout"
    /\ remote' = remote \ {MoDn(vnic_templ_dn[p], vlan_name)}
    /\ calls' = [calls EXCEPT ![p] =
                    @ \o <<Call("logout", "raise"), Call("fail_json", "exit")>>]
    /\ output' = [output EXCEPT ![p] = FailJson(ExcMsg("logout"))]
    /\ pc' = [pc EXCEPT ![p] = "failed"]
    /\ UNCHANGED <<params, sessions, vnic_templ_dn, vlan_on_vnic_template,
                   vlan_on_fi, results, buf, startedAfter>>

\* log_out_of_ucs: ucsm.handle.logout() raises; fail_json(msg=e)
LogoutRaise(p) ==
    /\ pc[p] = "logout"
    /\ calls' = [calls EXCEPT ![p] =
                    @ \o <<Call("logout", "raise"), Call("fail_json", "exit")>>]
    /\ output' = [output EXCEPT ![p] = FailJson(ExcMsg("logout"))]
    /\ pc' = [pc EXCEPT ![p] = "failed"]
    /\ UNCHANGED <<params, remote, sessions, vnic_templ_dn,
                   vlan_on_vnic_template, vlan_on_fi, results, buf, startedAfter>>

Next ==
    \E p \in Procs :
        \/ Start(p)
        \/ LoginOk(p)
        \/ LoginRaise(p)
        \/ QueryDn(p)
        \/ QueryClassid(p)
        \/ Decide(p)
        \/ AddMo(p)
        \/ CommitOk(p)
        \/ CommitRaise(p)
        \/ LogoutOk(p)
        \/ LogoutRaise(p)

Spec == Init /\ [][Next]_vars

-----------------------------------------------------------------------------
(* Reading the history of an invocation *)

\* the positions of calls[p] holding the call op with the outcome ret
At(p, op, ret) == {i \in DOMAIN calls[p] : calls[p][i] = Call(op, ret)}

\* the positions of calls[p] holding the call op
Issued(p, op) == {i \in DOMAIN calls[p] : calls[p][i].op = op}

Writes(p) == Issued(p, "add_mo") \cup Issued(p, "commit")

Reports(p) == Issued(p, "exit_json") \cup Issued(p, "fail_json")

TypeOK ==
    /\ pc \in [Procs -> {"start", "login", "query_dn", "query_classid", "decide",
                         "add_mo", "commit", "logout"} \cup Terminal]
    /\ sessions \subseteq Procs
    /\ \A p \in Procs : DOMAIN results[p] \subseteq {"logged_in", "logged_out", "changed"}

-----------------------------------------------------------------------------
(* The claims *)

\* C1: an invocation issues add_mo or commit only after its query_classid
\* (the fabric-wide VLAN existence query) has returned true.
C1_WriteOnlyAfterFabricCheck ==
    \A p \in Procs : \A i \in Writes(p) :
        \E j \in At(p, "query_classid", "true") : j < i

C1_Witness ==
    \E p \in Procs : At(p, "add_mo", "ok") # {} /\ At(p, "commit", "ok") # {}

\* C2: whenever an invocation reports through exit_json or fail_json after a
\* successful login, it has called logout before the report.
C2_LogoutBeforeEveryReport ==
    \A p \in Procs : \A i \in Reports(p) :
        (\E j \in At(p, "login", "ok") : j < i)
            => \E k \in Issued(p, "logout") : k < i

\* C3: after a successful login and a fabric-wide query that returned false,
\* whatever the target query returned, the invocation issues no write and
\* goes nowhere but to the failure "VLAN does not exist on UCS Fabric
\* Interconnects", with changed = False in its results.
C3_AbsentOnFabricFails ==
    \A p \in Procs :
        (At(p, "login", "ok") # {} /\ At(p, "query_classid", "false") # {})
            => /\ Writes(p) = {}
               /\ pc[p] \in {"decide", "failed"}
               /\ pc[p] = "failed" =>
                    /\ output[p] = FailJson(MsgNoVlan)
                    /\ Has(results[p], "changed", FALSE)
                    /\ ~Has(output[p].result, "changed", TRUE)

C3_Witness ==
    \E p \in Procs :
        /\ At(p, "login", "ok") # {}
        /\ At(p, "query_classid", "false") # {}
        /\ At(p, "query_dn", "true") # {}
        /\ pc[p] = "failed"

\* C4, as stated: once over, an invocation whose two queries both returned
\* true has issued no write, has closed its session and has reported success
\* with changed = False.
C4_Original ==
    \A p \in Procs :
        (/\ At(p, "query_classid", "true") # {}
         /\ At(p, "query_dn", "true") # {}
         /\ pc[p] \in Terminal)
            => /\ Writes(p) = {}
               /\ p \notin sessions
               /\ output[p].kind = "exit_json"
               /\ Has(output[p].result, "changed", FALSE)

\* C4, amended: an invocation whose two queries both returned true issues no
\* write; it ends either with logout returning, the session closed and
\* success reported with changed = False, or with logout raising and that
\* failure reported.
C4_NoOpWhenAlreadyAssociated ==
    \A p \in Procs :
        (At(p, "query_classid", "true") # {} /\ At(p, "query_dn", "true") # {})
            => /\ Writes(p) = {}
               /\ pc[p] \in {"decide", "logout", "exited", "failed"}
               /\ pc[p] = "exited" =>
                    /\ At(p, "logout", "ok") # {}
                    /\ p \notin sessions
                    /\ output[p] = ExitJson([logged_in |-> TRUE, changed |-> FALSE,
                                             logged_out |-> TRUE])
               /\ pc[p] = "failed" =>
                    /\ At(p, "logout", "raise") # {}
                    /\ output[p] = FailJson(ExcMsg("logout"))
                    /\ Has(results[p], "changed", FALSE)

C4_Witness ==
    \E p \in Procs :
        /\ At(p, "query_classid", "true") # {}
        /\ At(p, "query_dn", "true") # {}
        /\ pc[p] = "exited"

\* C5, as stated: once over, an invocation whose fabric-wide query returned
\* true and whose target query returned false has issued exactly one add_mo
\* followed by exactly one commit, and has reported exactly
\* {logged_in, logged_out, changed: True} if these and the logout returned.
C5_Original ==
    \A p \in Procs :
        (/\ At(p, "query_classid", "true") # {}
         /\ At(p, "query_dn", "false") # {}
         /\ pc[p] \in Terminal)
            => /\ Cardinality(Issued(p, "add_mo")) = 1
               /\ Cardinality(Issued(p, "commit")) = 1
               /\ \A i \in Issued(p, "add_mo") : \A j \in Issued(p, "commit") : i < j
               /\ (At(p, "commit", "ok") # {} /\ At(p, "logout", "ok") # {}) =>
                    output[p] = ExitJson([logged_in |-> TRUE, logged_out |-> TRUE,
                                          changed |-> TRUE])

\* C5, amended: such an invocation has, once over, issued exactly one add_mo,
\* followed by exactly one commit if add_mo returned and by none if add_mo
\* raised; it never issues more than one of either; and it has reported
\* exactly {logged_in, logged_out, changed: True} if add_mo, commit and
\* logout all returned.
C5_OneWriteAttempt ==
    \A p \in Procs :
        (At(p, "query_classid", "true") # {} /\ At(p, "query_dn", "false") # {})
            => /\ Cardinality(Issued(p, "add_mo")) <= 1
               /\ Cardinality(Issued(p, "commit")) <= 1
               /\ \A i \in Issued(p, "add_mo") : \A j \in Issued(p, "commit") : i < j
               /\ pc[p] \in Terminal =>
                    /\ Cardinality(Issued(p, "add_mo")) = 1
                    /\ At(p, "add_mo", "ok") # {} => Cardinality(Issued(p, "commit")) = 1
                    /\ At(p, "add_mo", "raise") # {} => Issued(p, "commit") = {}
                    /\ (At(p, "commit", "ok") # {} /\ At(p, "logout", "ok") # {}) =>
                         /\ pc[p] = "exited"
                         /\ output[p] = ExitJson([logged_in |-> TRUE, logged_out |-> TRUE,
                                                  changed |-> TRUE])

C5_Witness ==
    \E p \in Procs :
        /\ At(p, "query_classid", "true") # {}
        /\ At(p, "query_dn", "false") # {}
        /\ At(p, "commit", "ok") # {}
        /\ pc[p] = "exited"

\* C6: when the VLAN is on the fabric, an invocation q finds it not yet on
\* the template and ends with every call returning, and an invocation p with
\* the same parameters starts after q is over and ends with every call
\* returning, then q reports changed = True, p reports changed = False, and
\* p issues no write.
C6_SecondRunUnchanged ==
    \A p \in Procs : \A q \in Procs \ {p} :
        (/\ q \in startedAfter[p]
         /\ vlan_name \in fabricVlans
         /\ At(q, "query_dn", "false") # {}
         /\ pc[q] = "exited"
         /\ pc[p] = "exited")
            => /\ Has(output[q].result, "changed", TRUE)
               /\ Has(output[p].result, "changed", FALSE)
               /\ Writes(p) = {}

C6_Witness ==
    \E p \in Procs : \E q \in Procs \ {p} :
        /\ q \in startedAfter[p]
        /\ vlan_name \in fabricVlans
        /\ At(q, "query_dn", "false") # {}
        /\ At(q, "commit", "ok") # {}
        /\ pc[q] = "exited"
        /\ pc[p] = "exited"

\* C7: when add_mo or commit raises in an invocation whose fabric-wide query
\* returned true and whose target query returned false, the invocation is
\* over with that exception reported through fail_json, neither its results
\* nor its report carry changed = True, and no write call follows the one
\* that raised.
C7_RejectedWriteFails ==
    \A p \in Procs : \A op \in {"add_mo", "commit"} :
        (/\ At(p, "query_classid", "true") # {}
         /\ At(p, "query_dn", "false") # {}
         /\ At(p, op, "raise") # {})
            => /\ pc[p] = "failed"
               /\ output[p] = FailJson(ExcMsg(op))
               /\ ~Has(results[p], "changed", TRUE)
               /\ ~Has(output[p].result, "changed", TRUE)
               /\ \A i \in At(p, op, "raise") : \A j \in Writes(p) : j <= i
               /\ Cardinality(Issued(p, op)) = 1

C7_Witness ==
    /\ \E p \in Procs : At(p, "add_mo", "raise") # {}
    /\ \E p \in Procs : At(p, "commit", "raise") # {}

\* The path C8 states: 'org-<segment>/' for each segment in the given order,
\* followed by 'lan-conn-templ-<templateName>'.
RECURSIVE OrgPrefix(_)
OrgPrefix(segments) ==
    IF segments = <<>> THEN ""
    ELSE "org-" \o Head(segments) \o "/" \o OrgPrefix(Tail(segments))

ResolvedPath(segments, templateName) ==
    OrgPrefix(segments) \o "lan-conn-templ-" \o templateName

\* C8: the vnic_templ_dn an invocation has built is the stated path of its
\* org list and template name; (['root','ccl'], 'data-A') gives
\* 'org-root/org-ccl/lan-conn-templ-data-A'; two invocations with the same
\* parameters build the same path.
C8_TargetPath ==
    \A p \in Procs :
        pc[p] # "start" =>
            /\ vnic_templ_dn[p] = ResolvedPath(org, vnic_template_name)
            /\ (org = <<"root", "ccl">> /\ vnic_template_name = "data-A")
                   => vnic_templ_dn[p] = "org-root/org-ccl/lan-conn-templ-data-A"
            /\ org = <<>> => vnic_templ_dn[p] = "lan-conn-templ-" \o vnic_template_name
            /\ \A q \in Procs : pc[q] # "start" => vnic_templ_dn[q] = vnic_templ_dn[p]

C8_Witness ==
    /\ org = <<"root", "ccl">>
    /\ vnic_template_name = "data-A"
    /\ \A p \in Procs : pc[p] # "start"

\* C9: when logout raises after add_mo and commit returned, the invocation
\* reports the logout exception, the object it committed is still on the
\* UCS, and it issued nothing after the logout call but the report.
C9_LogoutFailureKeepsCommit ==
    \A p \in Procs :
        (At(p, "commit", "ok") # {} /\ At(p, "logout", "raise") # {})
            => /\ pc[p] = "failed"
               /\ output[p] = FailJson(ExcMsg("logout"))
               /\ MoDn(vnic_templ_dn[p], vlan_name) \in remote
               /\ Cardinality(Writes(p)) = 2
               /\ \A i \in At(p, "logout", "raise") :
                     /\ \A j \in Writes(p) : j < i
                     /\ Len(calls[p]) = i + 1
                     /\ calls[p][i + 1] = Call("fail_json", "exit")

C9_Witness ==
    \E p \in Procs : At(p, "commit", "ok") # {} /\ At(p, "logout", "raise") # {}

====
